---- MODULE Spec2Model ----
(***************************************************************************)
(* Model of the wol-server core (src/src/main.rs): the device catalog      *)
(* (DeviceStore.devices, persisted to devices.json), the connection        *)
(* registry (DeviceStore.active_connections), the HTTP handlers            *)
(* register_device, get_devices and wake_device, and the WsConnection      *)
(* actor.  The HTTP server runs its handlers on several worker threads     *)
(* that share one DeviceStore, so a handler is a sequence of steps, one    *)
(* per critical section or I/O call, and steps of different requests and   *)
(* of the connection actors interleave.                                    *)
(***************************************************************************)
EXTENDS Integers, Sequences, FiniteSets, TLC

\* ---------------------------------------------------------------- bounds
NConn == 2          \* WebSocket connections that may be opened
NReg == 2           \* register_device requests
NWake == 2          \* wake_device requests
NList == 1          \* get_devices requests
MailboxCap == 1     \* capacity of an actor mailbox
MaxArrivals == 3    \* HTTP requests that arrive in a run
MaxPanics == 1      \* panics inside a critical section in a run

Conns == 1..NConn
RegTasks == 1..NReg
WakeTasks == 1..NWake
ListTasks == 1..NList

\* ------------------------------------------------------------ input sets
foo == <<"f", "o", "o">>
Ids == {"A", "B"}
Macs == {"AA:BB:CC:DD:EE:FF", "11:22:33:44:55:66"}
Descs == {"pc", "desk"}
Secrets == {foo, foo \o <<"x">>}
IoErrors == {"No space left on device"}

\* struct Device
Device == [esp_id : Ids, mac_address : Macs, description : Descs, password : Secrets]
\* the bodies of the /register requests that arrive
RegisterBodies ==
    {[esp_id |-> "A", mac_address |-> "AA:BB:CC:DD:EE:FF", description |-> "pc", password |-> foo],
     [esp_id |-> "A", mac_address |-> "11:22:33:44:55:66", description |-> "desk",
      password |-> foo \o <<"x">>],
     [esp_id |-> "B", mac_address |-> "11:22:33:44:55:66", description |-> "pc", password |-> foo]}
\* struct WakeRequest
WakeRequest == [esp_id : Ids, password : Secrets]
\* the query string of a /ws request: an esp_id parameter, or none
Queries == {{}} \cup {{id} : id \in Ids}
\* ws::Message: the frames a device sends
Ping(payload) == [type |-> "ping", payload |-> payload]
Pong(payload) == [type |-> "pong", payload |-> payload]
Close(reason) == [type |-> "close", payload |-> reason]
Text(text) == [type |-> "text", payload |-> text]
Messages == {Ping("p"), Ping("q"), Close("1000"), Text("t")}

\* Option<T> is a set with at most one element
None == {}
Some(x) == {x}
Unwrap(o) == CHOOSE x \in o : TRUE

EmptyMap == [k \in {} |-> k]

VARIABLES
    devices,             \* DeviceStore.devices: esp_id -> Device
    file,                \* the content of DeviceStore.file_path
    active_connections,  \* DeviceStore.active_connections: esp_id -> Addr
    conn,                \* the WsConnection actors
    mailbox,             \* per actor: WsMessages accepted and not yet handled
    frames,              \* per actor: text frames written to the socket
    reg,                 \* the register_device requests
    wake,                \* the wake_device requests
    listing,             \* the get_devices requests: the body of the response
    log,                 \* history: the keys loaded and then inserted, in lock order
    lock,                \* the two Mutexes of DeviceStore: the task holding each
    poisoned,            \* the Mutexes that are poisoned
    aborted,             \* the tasks that left their normal path: how, and the response
    ctl,                 \* per actor: control frames written to the socket
    rx                   \* per actor: the frames received from the socket

vars == <<devices, file, active_connections, conn, mailbox, frames, reg, wake, listing, log,
          lock, poisoned, aborted, ctl, rx>>

\* ------------------------------------------------------- HTTP responses
NoResponse == [status |-> 0, body |-> ""]
Registered == [status |-> 200, body |-> "Device registered successfully"]
SaveFailed(e) == [status |-> 500, body |-> e]
IncorrectPassword == [status |-> 401, body |-> "Incorrect password"]
DeviceNotFound == [status |-> 404, body |-> "Device not found"]
DeviceOffline == [status |-> 404, body |-> "Device offline"]
WakeSent == [status |-> 200, body |-> "Wake command sent"]
WakeFailed == [status |-> 500, body |-> "Failed to send wake command"]
ListFailed == [status |-> 500, body |-> "Failed to get device list"]

\* ------------------------------------------------------------- helpers
\* HashMap::insert
MapInsert(m, k, v) == [x \in DOMAIN m \cup {k} |-> IF x = k THEN v ELSE m[x]]
\* HashMap::remove
MapRemove(m, k) == [x \in DOMAIN m \ {k} |-> m[x]]
\* HashMap::get(..).cloned()
MapGet(m, k) == IF k \in DOMAIN m THEN Some(m[k]) ELSE None

\* devices.insert(device.esp_id.clone(), device.into_inner())
devices_insert_keep(devs, device) ==
    IF device.esp_id \in DOMAIN devs THEN devs ELSE MapInsert(devs, device.esp_id, device)
devices_insert_only(devs, device) == [k \in {device.esp_id} |-> device]
devices_insert_by_mac(devs, device) == MapInsert(devs, device.mac_address, device)
devices_insert(devs, device) == MapInsert(devs, device.esp_id, device)

\* serde_json::to_string_pretty(&*devices): one JSON object per key, with
\* the four fields of Device
to_string_pretty(devs) ==
    [k \in DOMAIN devs |->
        [esp_id |-> devs[k].esp_id, mac_address |-> devs[k].mac_address,
         description |-> devs[k].description, password |-> devs[k].password]]

\* the file after fs::write: written in full, or cut short by an error
Written(json) == [complete |-> TRUE, json |-> json]
Partial == [complete |-> FALSE, json |-> EmptyMap]

\* devices.values().cloned().collect::<Vec<Device>>(): the values in some
\* iteration order of the keys
KeyOrders(m) ==
    {s \in [1..Cardinality(DOMAIN m) -> DOMAIN m] :
        \A i, j \in DOMAIN s : i /= j => s[i] /= s[j]}
values_collect(m) == {[i \in DOMAIN s |-> m[s[i]]] : s \in KeyOrders(m)}

\* device.password != wake_req.password
IsPrefix(s, t) == Len(s) <= Len(t) /\ SubSeq(t, 1, Len(s)) = s
password_ne_prefix(device, req) == ~IsPrefix(device.password, req.password)
password_ne(device, req) == device.password /= req.password

\* json!({"type": "wake", "mac_address": device.mac_address})
wake_msg_id(device) == [type |-> "wake", mac_address |-> device.esp_id]
wake_msg(device) == [type |-> "wake", mac_address |-> device.mac_address]

\* query.get("esp_id").cloned().unwrap_or_default()
query_esp_id_unknown(query) == IF query = None THEN "unknown" ELSE Unwrap(query)
query_esp_id(query) == IF query = None THEN "" ELSE Unwrap(query)

\* connections.insert(self.esp_id.clone(), ctx.address())
connections_insert(conns, esp_id, addr) == MapInsert(conns, esp_id, addr)

\* connections.get(&wake_req.esp_id).cloned(): the map is left as it is
connections_get_remove(conns, esp_id) ==
    [conns |-> MapRemove(conns, esp_id), addr |-> MapGet(conns, esp_id)]
connections_get(conns, esp_id) == [conns |-> conns, addr |-> MapGet(conns, esp_id)]

\* Some(device) of line 126: the record the password was checked against is
\* the record the command is built from
device_reread(device, devs) == devs[device.esp_id]
device_checked(device, devs) == device

\* connections.remove(&self.esp_id)
connections_remove_none(conns, esp_id) == conns
connections_remove(conns, esp_id) == MapRemove(conns, esp_id)

\* addr.try_send(..): refused when the actor has stopped or its mailbox is full
try_send_ok(box, state) == state = "started" /\ Len(box) < MailboxCap
try_send_twice(box, msg) == box \o <<msg, msg>>
try_send_push(box, msg) == Append(box, msg)

\* serde_json::from_str(&content): HashMap<String, Device>
from_str(json) ==
    [k \in DOMAIN json |->
        [esp_id |-> json[k].esp_id, mac_address |-> json[k].mac_address,
         description |-> json[k].description, password |-> json[k].password]]

\* DeviceStore::new, lines 45-48: the catalog read from the file, empty when
\* the file does not parse
DeviceStore_new(content) == IF content.complete THEN from_str(content.json) ELSE EmptyMap

\* the catalogs that registrations build, and the files an earlier run of the
\* server can have left behind (a missing file is created as "{}")
Catalogs ==
    UNION {{m \in [D -> RegisterBodies] : \A k \in D : m[k].esp_id = k} : D \in SUBSET Ids}
PersistedFiles == {Written(to_string_pretty(m)) : m \in Catalogs} \cup {Partial}

\* ------------------------------------------------------------- Mutex
\* the fields of DeviceStore behind a Mutex
LockNames == {"devices", "active_connections"}
\* the tasks that take them: request handlers and actors
RegTask(t) == <<"reg", t>>
WakeTask(t) == <<"wake", t>>
ListTask(t) == <<"list", t>>
ConnTask(c) == <<"conn", c>>
Tasks ==
    {RegTask(t) : t \in RegTasks} \cup {WakeTask(t) : t \in WakeTasks}
    \cup {ListTask(t) : t \in ListTasks} \cup {ConnTask(c) : c \in Conns}

\* the task holds the MutexGuard of k
Holds(k, me) == lock[k] = Some(me)
HeldBy(me) == {k \in LockNames : Holds(k, me)}
\* Mutex::lock returns Ok(guard): k is free and not poisoned
lock_ok(k, me) == lock[k] = None /\ k \notin poisoned
\* Mutex::lock returns Err(PoisonError): k is free and poisoned
lock_poisoned(k, me) == lock[k] = None /\ k \in poisoned
\* the guard is taken
guard_new(l, k, me) == [l EXCEPT ![k] = Some(me)]
\* the guard goes out of scope
guard_keep(l, k) == l
guard_drop(l, k) == [l EXCEPT ![k] = None]

\* the request has been accepted by a handler
reg_arrived(t) == reg[t].pc /= "idle" \/ HeldBy(RegTask(t)) /= {} \/ RegTask(t) \in DOMAIN aborted
wake_arrived(t) ==
    wake[t].pc /= "idle" \/ HeldBy(WakeTask(t)) /= {} \/ WakeTask(t) \in DOMAIN aborted
list_arrived(t) ==
    listing[t] /= None \/ HeldBy(ListTask(t)) /= {} \/ ListTask(t) \in DOMAIN aborted

\* the number of frames in the first n sequences of f
RECURSIVE SumLen(_, _)
SumLen(f, n) == IF n = 0 THEN 0 ELSE Len(f[n]) + SumLen(f, n - 1)

\* the requests and frames that have arrived
Arrivals ==
    Cardinality({t \in RegTasks : reg_arrived(t)})
    + Cardinality({t \in WakeTasks : wake_arrived(t)})
    + Cardinality({t \in ListTasks : list_arrived(t)})
    + Cardinality({c \in Conns : conn[c].state /= "none"})
    + SumLen(rx, NConn)

\* ---------------------------------------------------------------- Init
\* DeviceStore::new, no request under way
NoConn == [state |-> "none", esp_id |-> ""]
IdleReg == [pc |-> "idle", device |-> None, json |-> None, resp |-> NoResponse, at |-> 0]
IdleWake == [pc |-> "idle", req |-> None, device |-> None, addr |-> None,
             resp |-> NoResponse, attempts |-> 0]

Init ==
    /\ file \in PersistedFiles
    /\ devices = DeviceStore_new(file)
    /\ active_connections = EmptyMap
    /\ conn = [c \in Conns |-> NoConn]
    /\ mailbox = [c \in Conns |-> <<>>]
    /\ frames = [c \in Conns |-> <<>>]
    /\ reg = [t \in RegTasks |-> IdleReg]
    /\ wake = [t \in WakeTasks |-> IdleWake]
    /\ listing = [t \in ListTasks |-> None]
    /\ log = (CHOOSE s \in KeyOrders(devices) : TRUE)
    /\ lock = [k \in LockNames |-> None]
    /\ poisoned = {}
    /\ aborted = EmptyMap
    /\ ctl = [c \in Conns |-> <<>>]
    /\ rx = [c \in Conns |-> <<>>]

\* ------------------------------------------------------ register_device
\* line 75: store.devices.lock() returns the guard
register_device_lock(t) ==
    /\ reg[t].pc = "idle"
    /\ RegTask(t) \notin DOMAIN aborted
    /\ t > 1 => reg_arrived(t - 1)
    /\ Arrivals < MaxArrivals
    /\ lock_ok("devices", RegTask(t))
    /\ lock' = guard_new(lock, "devices", RegTask(t))
    /\ UNCHANGED <<devices, file, active_connections, conn, mailbox, frames, reg, wake, listing,
                 log, poisoned, aborted, ctl, rx>>

\* lines 74-77: insert under the devices lock
register_device(t, device) ==
    /\ reg[t].pc = "idle"
    /\ Holds("devices", RegTask(t))
    /\ lock' = guard_drop(lock, "devices")
    /\ devices' = devices_insert(devices, device)
    /\ log' = Append(log, device.esp_id)
    /\ reg' = [reg EXCEPT ![t] = [@ EXCEPT !.pc = "inserted", !.device = Some(device),
                                            !.at = Len(log) + 1]]
    /\ UNCHANGED <<file, active_connections, conn, mailbox, frames, wake, listing,
                 poisoned, aborted, ctl, rx>>

\* DeviceStore::save, line 60: self.devices.lock() returns the guard
save_lock(t) ==
    /\ reg[t].pc = "inserted"
    /\ lock_ok("devices", RegTask(t))
    /\ lock' = guard_new(lock, "devices", RegTask(t))
    /\ UNCHANGED <<devices, file, active_connections, conn, mailbox, frames, reg, wake, listing,
                 log, poisoned, aborted, ctl, rx>>

\* DeviceStore::save, lines 59-62: serialise under the devices lock
save_serialize(t) ==
    /\ reg[t].pc = "inserted"
    /\ Holds("devices", RegTask(t))
    /\ lock' = guard_drop(lock, "devices")
    /\ reg' = [reg EXCEPT ![t] = [@ EXCEPT !.pc = "serialized",
                                            !.json = Some(to_string_pretty(devices))]]
    /\ UNCHANGED <<devices, file, active_connections, conn, mailbox, frames, wake, listing, log,
                 poisoned, aborted, ctl, rx>>

\* DeviceStore::save line 63 and register_device lines 79-83: fs::write succeeds
save_write_ok(t) ==
    /\ reg[t].pc = "serialized"
    /\ file' = Written(Unwrap(reg[t].json))
    /\ reg' = [reg EXCEPT ![t] = [@ EXCEPT !.pc = "done", !.json = None, !.resp = Registered]]
    /\ UNCHANGED <<devices, active_connections, conn, mailbox, frames, wake, listing, log,
                 lock, poisoned, aborted, ctl, rx>>

\* DeviceStore::save line 63 and register_device lines 84-87: fs::write fails,
\* before the file is opened or after it was truncated
save_write_err(t, e) ==
    /\ reg[t].pc = "serialized"
    /\ file' \in {file, Partial}
    /\ reg' = [reg EXCEPT ![t] = [@ EXCEPT !.pc = "done", !.json = None, !.resp = SaveFailed(e)]]
    /\ UNCHANGED <<devices, active_connections, conn, mailbox, frames, wake, listing, log,
                 lock, poisoned, aborted, ctl, rx>>

\* ---------------------------------------------------------- get_devices
\* lines 95-96: store.devices.lock() returns Ok(guard)
get_devices_lock(t) ==
    /\ ~list_arrived(t)
    /\ t > 1 => list_arrived(t - 1)
    /\ Arrivals < MaxArrivals
    /\ lock_ok("devices", ListTask(t))
    /\ lock' = guard_new(lock, "devices", ListTask(t))
    /\ UNCHANGED <<devices, file, active_connections, conn, mailbox, frames, reg, wake, listing,
                 log, poisoned, aborted, ctl, rx>>

\* lines 95-110, one critical section
get_devices(t) ==
    /\ listing[t] = None
    /\ Holds("devices", ListTask(t))
    /\ lock' = guard_drop(lock, "devices")
    /\ \E devices_vec \in values_collect(devices) : listing' = [listing EXCEPT ![t] = Some(devices_vec)]
    /\ UNCHANGED <<devices, file, active_connections, conn, mailbox, frames, reg, wake, log,
                 poisoned, aborted, ctl, rx>>

\* ---------------------------------------------------------- wake_device
\* line 121: store.devices.lock() returns the guard
wake_device_lock_devices(t) ==
    /\ wake[t].pc = "idle"
    /\ WakeTask(t) \notin DOMAIN aborted
    /\ t > 1 => wake_arrived(t - 1)
    /\ Arrivals < MaxArrivals
    /\ lock_ok("devices", WakeTask(t))
    /\ lock' = guard_new(lock, "devices", WakeTask(t))
    /\ UNCHANGED <<devices, file, active_connections, conn, mailbox, frames, reg, wake, listing,
                 log, poisoned, aborted, ctl, rx>>

\* lines 120-130 and 158-161: read the record under the devices lock, check the password
wake_device_get(t, req) ==
    /\ wake[t].pc = "idle"
    /\ Holds("devices", WakeTask(t))
    /\ lock' = guard_drop(lock, "devices")
    /\ LET device == MapGet(devices, req.esp_id) IN
         wake' = [wake EXCEPT ![t] =
            IF device = None
            THEN [IdleWake EXCEPT !.pc = "done", !.resp = DeviceNotFound]
            ELSE IF password_ne(Unwrap(device), req)
            THEN [IdleWake EXCEPT !.pc = "done", !.resp = IncorrectPassword]
            ELSE [@ EXCEPT !.pc = "authorized", !.req = Some(req), !.device = device]]
    /\ UNCHANGED <<devices, file, active_connections, conn, mailbox, frames, reg, listing, log,
                 poisoned, aborted, ctl, rx>>

\* line 133: store.active_connections.lock() returns the guard
wake_device_lock_connections(t) ==
    /\ wake[t].pc = "authorized"
    /\ lock_ok("active_connections", WakeTask(t))
    /\ lock' = guard_new(lock, "active_connections", WakeTask(t))
    /\ UNCHANGED <<devices, file, active_connections, conn, mailbox, frames, reg, wake, listing,
                 log, poisoned, aborted, ctl, rx>>

\* lines 132-137 and 153-156: read the address under the connections lock
wake_device_lookup(t) ==
    /\ wake[t].pc = "authorized"
    /\ Holds("active_connections", WakeTask(t))
    /\ lock' = guard_drop(lock, "active_connections")
    /\ LET got == connections_get(active_connections, Unwrap(wake[t].req).esp_id)
           addr == got.addr IN
         /\ active_connections' = got.conns
         /\ wake' = [wake EXCEPT ![t] =
               IF addr = None
               THEN [IdleWake EXCEPT !.pc = "done", !.resp = DeviceOffline]
               ELSE [@ EXCEPT !.pc = "sending", !.addr = addr]]
    /\ UNCHANGED <<devices, file, conn, mailbox, frames, reg, listing, log,
                 poisoned, aborted, ctl, rx>>

\* lines 138-152: build the command, try_send it, answer
wake_device_send(t) ==
    /\ wake[t].pc = "sending"
    /\ LET addr == Unwrap(wake[t].addr)
           msg == wake_msg(device_checked(Unwrap(wake[t].device), devices)) IN
         IF try_send_ok(mailbox[addr], conn[addr].state)
         THEN /\ mailbox' = [mailbox EXCEPT ![addr] = try_send_push(@, msg)]
              /\ wake' = [wake EXCEPT ![t] = [IdleWake EXCEPT !.pc = "done", !.resp = WakeSent,
                                                             !.attempts = wake[t].attempts + 1]]
         ELSE /\ mailbox' = mailbox
              /\ wake' = [wake EXCEPT ![t] = [IdleWake EXCEPT !.pc = "done", !.resp = WakeFailed,
                                                             !.attempts = wake[t].attempts + 1]]
    /\ UNCHANGED <<devices, file, active_connections, conn, frames, reg, listing, log,
                 lock, poisoned, aborted, ctl, rx>>

\* --------------------------------------------------------- WsConnection
\* ws_index, lines 374-388: create the actor under the claimed id
ws_index(c, query) ==
    /\ conn[c].state = "none"
    /\ c > 1 => conn[c - 1].state /= "none"
    /\ Arrivals < MaxArrivals
    /\ conn' = [conn EXCEPT ![c] = [state |-> "created", esp_id |-> query_esp_id(query)]]
    /\ UNCHANGED <<devices, file, active_connections, mailbox, frames, reg, wake, listing, log,
                 lock, poisoned, aborted, ctl, rx>>

\* Actor::started, line 350: the lock returns the guard
started_lock(c) ==
    /\ conn[c].state = "created"
    /\ lock_ok("active_connections", ConnTask(c))
    /\ lock' = guard_new(lock, "active_connections", ConnTask(c))
    /\ UNCHANGED <<devices, file, active_connections, conn, mailbox, frames, reg, wake, listing,
                 log, poisoned, aborted, ctl, rx>>

\* Actor::started, lines 348-352
started(c) ==
    /\ conn[c].state = "created"
    /\ Holds("active_connections", ConnTask(c))
    /\ lock' = guard_drop(lock, "active_connections")
    /\ conn' = [conn EXCEPT ![c].state = "started"]
    /\ active_connections' = connections_insert(active_connections, conn[c].esp_id, c)
    /\ UNCHANGED <<devices, file, mailbox, frames, reg, wake, listing, log,
                 poisoned, aborted, ctl, rx>>

\* the stream has ended and Actor::stopped runs; line 356: the lock returns
\* the guard
stopped_lock(c) ==
    /\ conn[c].state = "started"
    /\ lock_ok("active_connections", ConnTask(c))
    /\ lock' = guard_new(lock, "active_connections", ConnTask(c))
    /\ UNCHANGED <<devices, file, active_connections, conn, mailbox, frames, reg, wake, listing,
                 log, poisoned, aborted, ctl, rx>>

\* Actor::stopped, lines 354-358
stopped(c) ==
    /\ conn[c].state = "started"
    /\ Holds("active_connections", ConnTask(c))
    /\ lock' = guard_drop(lock, "active_connections")
    /\ conn' = [conn EXCEPT ![c].state = "stopped"]
    /\ active_connections' = connections_remove(active_connections, conn[c].esp_id)
    /\ UNCHANGED <<devices, file, mailbox, frames, reg, wake, listing, log,
                 poisoned, aborted, ctl, rx>>

\* the stream of the actor has yielded its Close frame: it yields nothing more
stream_closed(c) == rx[c] /= <<>> /\ rx[c][Len(rx[c])].type = "close"

\* ctx.pong(&msg)
pong_empty(payload) == Pong("")
pong(payload) == Pong(payload)

\* StreamHandler::handle, lines 362-370: the frames written for a message
stream_reply(msg) ==
    IF msg.type = "ping" THEN <<pong(msg.payload)>>
    ELSE IF msg.type = "close" THEN <<Close(msg.payload)>>
    ELSE <<>>

\* StreamHandler::handle, lines 361-371: a frame arrives on the socket
stream_handle(c, msg) ==
    /\ conn[c].state = "started"
    /\ HeldBy(ConnTask(c)) = {}
    /\ ~stream_closed(c)
    /\ Arrivals < MaxArrivals
    /\ rx' = [rx EXCEPT ![c] = Append(@, msg)]
    /\ ctl' = [ctl EXCEPT ![c] = @ \o stream_reply(msg)]
    /\ UNCHANGED <<devices, file, active_connections, conn, mailbox, frames, reg, wake, listing,
                 log, lock, poisoned, aborted>>

\* ctx.text(msg.0)
ctx_text_twice(written, msg) == written \o <<msg, msg>>
ctx_text(written, msg) == Append(written, msg)

\* Handler<WsMessage>::handle, lines 340-342: ctx.text(msg.0)
handle(c) ==
    /\ conn[c].state = "started"
    /\ HeldBy(ConnTask(c)) = {}
    /\ mailbox[c] /= <<>>
    /\ frames' = [frames EXCEPT ![c] = ctx_text(@, Head(mailbox[c]))]
    /\ mailbox' = [mailbox EXCEPT ![c] = Tail(@)]
    /\ UNCHANGED <<devices, file, active_connections, conn, reg, wake, listing, log,
                 lock, poisoned, aborted, ctl, rx>>

\* ------------------------------------------------------ poisoned locks
\* a task that ended by a panic: no response is written
Panicked(where) == [at |-> where, panicked |-> TRUE, resp |-> NoResponse]
\* a task that ended by an early return with a response
Returned(where, resp) == [at |-> where, panicked |-> FALSE, resp |-> resp]

\* Result::unwrap on the Err of lock(): the task panics
unwrap_err == Panicked("lock")

\* the state of a task that has ended this way
abort_task(me, how) ==
    /\ aborted' = MapInsert(aborted, me, how)
    /\ reg' = [t \in RegTasks |-> IF me = RegTask(t) THEN [IdleReg EXCEPT !.pc = "panicked"]
                                    ELSE reg[t]]
    /\ wake' = [t \in WakeTasks |-> IF me = WakeTask(t) THEN [IdleWake EXCEPT !.pc = "panicked"]
                                      ELSE wake[t]]
    /\ conn' = [c \in Conns |-> IF me = ConnTask(c) THEN [conn[c] EXCEPT !.state = "panicked"]
                                  ELSE conn[c]]

\* a panic while a guard is alive (an allocation inside insert or collect
\* that fails with a panic): unwinding drops the guard and poisons the Mutex
section_panics(me) ==
    /\ Cardinality(poisoned) < MaxPanics
    /\ \E k \in HeldBy(me) :
         /\ lock' = guard_drop(lock, k)
         /\ poisoned' = poisoned \cup {k}
    /\ abort_task(me, Panicked("section"))
    /\ UNCHANGED <<devices, file, active_connections, mailbox, frames, listing, log, ctl, rx>>

\* line 75: store.devices.lock().unwrap() on a poisoned lock
register_device_lock_err(t) ==
    /\ reg[t].pc = "idle"
    /\ ~reg_arrived(t)
    /\ t > 1 => reg_arrived(t - 1)
    /\ Arrivals < MaxArrivals
    /\ lock_poisoned("devices", RegTask(t))
    /\ abort_task(RegTask(t), unwrap_err)
    /\ UNCHANGED <<devices, file, active_connections, mailbox, frames, listing, log,
                 lock, poisoned, ctl, rx>>

\* DeviceStore::save, line 60: self.devices.lock().unwrap() on a poisoned lock
save_lock_err(t) ==
    /\ reg[t].pc = "inserted"
    /\ lock_poisoned("devices", RegTask(t))
    /\ abort_task(RegTask(t), unwrap_err)
    /\ UNCHANGED <<devices, file, active_connections, mailbox, frames, listing, log,
                 lock, poisoned, ctl, rx>>

\* get_devices, lines 96-101: the Err arm returns the 500 response
get_devices_lock_err(t) ==
    /\ ~list_arrived(t)
    /\ t > 1 => list_arrived(t - 1)
    /\ Arrivals < MaxArrivals
    /\ lock_poisoned("devices", ListTask(t))
    /\ abort_task(ListTask(t), Returned("lock", ListFailed))
    /\ UNCHANGED <<devices, file, active_connections, mailbox, frames, listing, log,
                 lock, poisoned, ctl, rx>>

\* line 121: store.devices.lock().unwrap() on a poisoned lock
wake_device_lock_devices_err(t) ==
    /\ wake[t].pc = "idle"
    /\ ~wake_arrived(t)
    /\ t > 1 => wake_arrived(t - 1)
    /\ Arrivals < MaxArrivals
    /\ lock_poisoned("devices", WakeTask(t))
    /\ abort_task(WakeTask(t), unwrap_err)
    /\ UNCHANGED <<devices, file, active_connections, mailbox, frames, listing, log,
                 lock, poisoned, ctl, rx>>

\* line 133: store.active_connections.lock().unwrap() on a poisoned lock
wake_device_lock_connections_err(t) ==
    /\ wake[t].pc = "authorized"
    /\ lock_poisoned("active_connections", WakeTask(t))
    /\ abort_task(WakeTask(t), unwrap_err)
    /\ UNCHANGED <<devices, file, active_connections, mailbox, frames, listing, log,
                 lock, poisoned, ctl, rx>>

\* Actor::started, line 350, on a poisoned lock
started_lock_err(c) ==
    /\ conn[c].state = "created"
    /\ lock_poisoned("active_connections", ConnTask(c))
    /\ abort_task(ConnTask(c), unwrap_err)
    /\ UNCHANGED <<devices, file, active_connections, mailbox, frames, listing, log,
                 lock, poisoned, ctl, rx>>

\* Actor::stopped, line 356, on a poisoned lock
stopped_lock_err(c) ==
    /\ conn[c].state = "started"
    /\ lock_poisoned("active_connections", ConnTask(c))
    /\ abort_task(ConnTask(c), unwrap_err)
    /\ UNCHANGED <<devices, file, active_connections, mailbox, frames, listing, log,
                 lock, poisoned, ctl, rx>>

\* ----------------------------------------------------------------- Next
\* the catalog: POST /register and GET /devices
NextCatalog ==
    \/ \E t \in RegTasks : register_device_lock(t)
    \/ \E t \in RegTasks, device \in RegisterBodies : register_device(t, device)
    \/ \E t \in RegTasks : save_lock(t)
    \/ \E t \in RegTasks : save_serialize(t)
    \/ \E t \in RegTasks : save_write_ok(t)
    \/ \E t \in RegTasks, e \in IoErrors : save_write_err(t, e)
    \/ \E t \in ListTasks : get_devices_lock(t)
    \/ \E t \in ListTasks : get_devices(t)

\* the connection actors: GET /ws
NextRegistry ==
    \/ \E c \in Conns, query \in Queries : ws_index(c, query)
    \/ \E c \in Conns : started_lock(c)
    \/ \E c \in Conns : started(c)
    \/ \E c \in Conns : stopped_lock(c)
    \/ \E c \in Conns : stopped(c)
    \/ \E c \in Conns : handle(c)
    \/ \E c \in Conns, msg \in Messages : stream_handle(c, msg)

\* POST /wake
NextWake ==
    \/ \E t \in WakeTasks : wake_device_lock_devices(t)
    \/ \E t \in WakeTasks, req \in WakeRequest : wake_device_get(t, req)
    \/ \E t \in WakeTasks : wake_device_lock_connections(t)
    \/ \E t \in WakeTasks : wake_device_lookup(t)
    \/ \E t \in WakeTasks : wake_device_send(t)

Next == NextCatalog \/ NextRegistry \/ NextWake

Spec == Init /\ [][Next]_vars

\* the stream of the actor has ended after its Close frame: the default
\* StreamHandler::finished stops the context and Actor::stopped runs
finished(c) == stream_closed(c) /\ stopped_lock(c)

\* the server with the scheduling of actix: an actor whose stream has ended
\* is stopped, and a task inside a critical section of the registry goes on
SpecFair ==
    /\ Spec
    /\ \A c \in Conns : WF_vars(finished(c)) /\ WF_vars(stopped(c)) /\ WF_vars(started(c))
    /\ \A t \in WakeTasks : WF_vars(wake_device_lookup(t))

\* the process ends and main runs again: DeviceStore::new reads the file,
\* the handlers, the actors and the registry of the old process are gone
restart ==
    /\ devices' = DeviceStore_new(file)
    /\ active_connections' = EmptyMap
    /\ conn' = [c \in Conns |-> NoConn]
    /\ mailbox' = [c \in Conns |-> <<>>]
    /\ frames' = [c \in Conns |-> <<>>]
    /\ reg' = [t \in RegTasks |-> IdleReg]
    /\ wake' = [t \in WakeTasks |-> IdleWake]
    /\ listing' = [t \in ListTasks |-> None]
    /\ log' = (CHOOSE s \in KeyOrders(devices') : TRUE)
    /\ lock' = [k \in LockNames |-> None]
    /\ poisoned' = {}
    /\ aborted' = EmptyMap
    /\ ctl' = [c \in Conns |-> <<>>]
    /\ rx' = [c \in Conns |-> <<>>]
    /\ UNCHANGED file

\* the server, stopped and started again at any moment
SpecRestart == Init /\ [][Next \/ restart]_vars

\* the server with panics inside critical sections
NextPoison ==
    \/ \E me \in Tasks : section_panics(me)
    \/ \E t \in RegTasks : register_device_lock_err(t)
    \/ \E t \in RegTasks : save_lock_err(t)
    \/ \E t \in ListTasks : get_devices_lock_err(t)
    \/ \E t \in WakeTasks : wake_device_lock_devices_err(t)
    \/ \E t \in WakeTasks : wake_device_lock_connections_err(t)
    \/ \E c \in Conns : started_lock_err(c)
    \/ \E c \in Conns : stopped_lock_err(c)

SpecPoison == Init /\ [][Next \/ NextPoison]_vars

\* =================================================================
\* Properties
\* =================================================================

\* the connections opened under id that have started and not stopped
Live(id) == {c \in Conns : conn[c].state = "started" /\ conn[c].esp_id = id}

\* C1: a closing connection removes the registry entry of its id only when
\* the stored handle is its own, and leaves the registry as it is otherwise
\* (so a handle registered later under the same id survives the close of
\* the earlier connection).
C1_DeregisterOnlyOwnHandle ==
    [][\A c \in Conns :
        (conn[c].state = "started" /\ conn'[c].state = "stopped") =>
            active_connections' =
                IF MapGet(active_connections, conn[c].esp_id) = Some(c)
                THEN MapRemove(active_connections, conn[c].esp_id)
                ELSE active_connections]_vars

\* C2: a wake with the correct secret whose registry lookup runs while a
\* connection of that id is live does not answer "Device offline": it goes
\* on to send to a live connection of that id.
C2_OfflineOnlyWithoutLiveConnection ==
    [][\A t \in WakeTasks :
        (wake[t].pc = "authorized" /\ wake'[t].pc /= "authorized"
            /\ Live(Unwrap(wake[t].req).esp_id) /= {}) =>
                /\ wake'[t].resp /= DeviceOffline
                /\ wake'[t].pc = "sending"
                /\ Unwrap(wake'[t].addr) \in Live(Unwrap(wake[t].req).esp_id)]_vars

\* the registry invariant and the lookup step of C3
C3_RegistryHoldsLive ==
    \A id \in DOMAIN active_connections : active_connections[id] \in Live(id)
C3_LookupReturnsLive ==
    \A t \in WakeTasks :
        (wake[t].pc = "authorized" /\ wake'[t].pc = "sending") =>
            Unwrap(wake'[t].addr) \in Live(Unwrap(wake[t].req).esp_id)
\* C3: every handle stored in the registry belongs to a connection that has
\* started and not stopped and that was opened under the key's id, and every
\* handle a registry lookup returns is such a handle.
C3_NoStaleEntries == []C3_RegistryHoldsLive /\ [][C3_LookupReturnsLive]_vars
\* a connection of some id has stopped, the registry holds a later handle
\* under that id, and a lookup has returned it
C3_Witness ==
    \E c \in Conns, t \in WakeTasks :
        /\ conn[c].state = "stopped"
        /\ conn[c].esp_id \in DOMAIN active_connections
        /\ wake[t].pc = "sending"
        /\ Unwrap(wake[t].req).esp_id = conn[c].esp_id

\* the three steps of wake_device, as C4 states them
C4_Get ==
    \A t \in WakeTasks, req \in WakeRequest :
        wake_device_get(t, req) =>
            IF req.esp_id \notin DOMAIN devices
            THEN wake'[t].pc = "done" /\ wake'[t].resp = DeviceNotFound
            ELSE IF devices[req.esp_id].password = req.password
            THEN wake'[t].pc = "authorized" /\ wake'[t].resp = NoResponse
            ELSE wake'[t].pc = "done" /\ wake'[t].resp = IncorrectPassword
C4_Lookup ==
    \A t \in WakeTasks :
        wake_device_lookup(t) =>
            IF Unwrap(wake[t].req).esp_id \in DOMAIN active_connections
            THEN wake'[t].pc = "sending" /\ wake'[t].resp = NoResponse
            ELSE wake'[t].pc = "done" /\ wake'[t].resp = DeviceOffline
C4_Send ==
    \A t \in WakeTasks :
        wake_device_send(t) =>
            /\ wake'[t].pc = "done"
            /\ LET a == Unwrap(wake[t].addr) IN
                 IF conn[a].state = "started" /\ Len(mailbox[a]) < MailboxCap
                 THEN wake'[t].resp = WakeSent /\ Len(mailbox'[a]) = Len(mailbox[a]) + 1
                 ELSE wake'[t].resp = WakeFailed /\ mailbox' = mailbox
\* C4: the outcome of a wake request is decided in a fixed order.  With no
\* record for the id it is "Device not found"; with a record whose password
\* differs from the request's it is "Incorrect password", whatever the
\* registry holds; with a matching password and no registered connection it
\* is "Device offline"; with a registered connection it is "Wake command
\* sent" when try_send accepts the message and "Failed to send wake command"
\* when it does not.  The comparison is exact: s is granted, s + "x" is not.
C4_OutcomeOrder == [][C4_Get /\ C4_Lookup /\ C4_Send]_vars
\* a request with secret s + "x" for a record with secret s was refused while
\* a connection was registered under its id, and another wake was dispatched
C4_Witness ==
    \E t, u \in WakeTasks, id \in DOMAIN devices :
        /\ wake[t].resp = IncorrectPassword
        /\ DOMAIN devices = {id}
        /\ devices[id].password = foo
        /\ id \in DOMAIN active_connections
        /\ wake[u].resp = WakeSent

\* the three steps of wake_device, as C5 states them
C5_Get ==
    \A t \in WakeTasks, req \in WakeRequest :
        (wake_device_get(t, req) /\ wake'[t].pc = "authorized") =>
            wake'[t].req = Some(req) /\ wake'[t].device = Some(devices[req.esp_id])
C5_Lookup ==
    \A t \in WakeTasks :
        (wake_device_lookup(t) /\ wake'[t].pc = "sending") =>
            /\ wake'[t].addr = Some(active_connections[Unwrap(wake[t].req).esp_id])
            /\ wake'[t].device = wake[t].device
            /\ wake'[t].req = wake[t].req
C5_Send ==
    \A t \in WakeTasks :
        (wake_device_send(t) /\ wake'[t].resp = WakeSent) =>
            LET a == Unwrap(wake[t].addr)
                id == Unwrap(wake[t].req).esp_id
                M == Unwrap(wake[t].device).mac_address IN
              /\ conn[a].esp_id = id
              /\ Unwrap(wake[t].device).esp_id = id
              /\ mailbox' = [mailbox EXCEPT
                    ![a] = Append(@, [type |-> "wake", mac_address |-> M])]
              /\ frames' = frames
\* C5: a wake answered "Wake command sent" has put exactly one message, the
\* object {type: "wake", mac_address: M}, into the mailbox of the handle
\* that the registry held under the request's id when it was looked up,
\* where M is the mac_address of the catalog record read for that id; that
\* handle was opened under the request's id, and no other mailbox changes.
C5_ExactPayloadToLookedUpHandle == [][C5_Get /\ C5_Lookup /\ C5_Send]_vars
\* a wake for one id was dispatched while a connection of another id was
\* established, and that connection received nothing
C5_Witness ==
    \E t \in WakeTasks, a, b \in Conns :
        /\ wake[t].resp = WakeSent
        /\ conn[a].state = "started" /\ conn[b].state = "started"
        /\ conn[a].esp_id /= conn[b].esp_id
        /\ Len(mailbox[a]) + Len(frames[a]) = 1
        /\ mailbox[b] = <<>> /\ frames[b] = <<>>

\* the messages accepted and the wakes dispatched, for C6
RECURSIVE SumOver(_, _)
SumOver(S, f) ==
    IF S = {} THEN 0 ELSE LET x == CHOOSE y \in S : TRUE IN f[x] + SumOver(S \ {x}, f)
Accepted == SumOver(Conns, [c \in Conns |-> Len(mailbox[c]) + Len(frames[c])])
Dispatched == Cardinality({t \in WakeTasks : wake[t].resp = WakeSent})
\* C6: a wake request calls try_send at most once, and not at all when it
\* answers not found, unauthorized or offline; a refused send is answered
\* "Failed to send wake command" after that one call; and the messages the
\* connections have accepted are no more than the wakes answered "Wake
\* command sent".
C6_AtMostOnce ==
    /\ \A t \in WakeTasks :
        /\ wake[t].attempts <= 1
        /\ wake[t].resp \in {DeviceNotFound, IncorrectPassword, DeviceOffline}
              => wake[t].attempts = 0
        /\ wake[t].resp \in {WakeSent, WakeFailed} => wake[t].attempts = 1
    /\ Accepted <= Dispatched
\* one wake was dispatched and accepted, another was refused by try_send
C6_Witness ==
    \E t, u \in WakeTasks :
        /\ wake[t].resp = WakeSent
        /\ wake[u].resp = WakeFailed
        /\ Accepted = 1

\* the registration of request t is the last one applied for its id
LastForId(t) ==
    \A i \in (reg[t].at + 1)..Len(log) : log[i] /= Unwrap(reg[t].device).esp_id

\* C7: once every register_device call has returned, all of them with
\* success, the file holds the snapshot of the in-memory catalog.
C7_SnapshotEqualsCatalog ==
    (/\ \E t \in RegTasks : reg[t].pc = "done"
     /\ \A t \in RegTasks : reg[t].pc \in {"idle", "done"}
     /\ \A t \in RegTasks : reg[t].pc = "done" => reg[t].resp = Registered)
        => file = Written(to_string_pretty(devices))

\* the failing write and what follows it, as C8 states them
C8_Fail ==
    \A t \in RegTasks, e \in IoErrors :
        save_write_err(t, e) =>
            /\ reg'[t].resp = [status |-> 500, body |-> e]
            /\ devices' = devices
C8_Failed(t) == reg[t].pc = "done" /\ reg[t].resp.status = 500 /\ LastForId(t)
C8_Kept ==
    \A t \in RegTasks :
        C8_Failed(t) => MapGet(devices, Unwrap(reg[t].device).esp_id) = reg[t].device
C8_Seen ==
    \A t \in RegTasks :
        C8_Failed(t) =>
            LET d == Unwrap(reg[t].device) IN
              /\ \A u \in ListTasks :
                    get_devices(u) =>
                        \E i \in DOMAIN Unwrap(listing'[u]) : Unwrap(listing'[u])[i] = d
              /\ \A u \in WakeTasks, req \in WakeRequest :
                    (wake_device_get(u, req) /\ req.esp_id = d.esp_id) =>
                        IF req.password = d.password
                        THEN wake'[u].pc = "authorized" /\ wake'[u].device = Some(d)
                        ELSE wake'[u].resp = IncorrectPassword
\* C8: when the write of a registration fails the caller gets a 500
\* response whose body is the error, the catalog is left as it is and holds
\* the record just registered (unless a later registration for the same id
\* has replaced it), and from then on a listing contains that record and a
\* wake for its id reads it.
C8_NoRollback == []C8_Kept /\ [][C8_Fail /\ C8_Seen]_vars
\* a registration failed to persist, so the file lacks its record; a later
\* listing holds the record and a later wake was authorized against it
C8_Witness ==
    \E t \in RegTasks, u \in ListTasks, w \in WakeTasks :
        /\ C8_Failed(t)
        /\ file /= Written(to_string_pretty(devices))
        /\ listing[u] /= None
        /\ \E i \in DOMAIN Unwrap(listing[u]) : Unwrap(listing[u])[i] = Unwrap(reg[t].device)
        /\ wake[w].pc = "authorized"
        /\ wake[w].device = reg[t].device

\* C9: the catalog maps each id to the record of the last registration
\* applied for that id, equal to it in all four fields, under that id as
\* key; the keys are the ids loaded or registered.
C9_LastRegistrationWins ==
    /\ DOMAIN devices = {log[i] : i \in DOMAIN log}
    /\ \A k \in DOMAIN devices : devices[k].esp_id = k
    /\ \A t \in RegTasks :
        (reg[t].pc /= "idle" /\ LastForId(t)) =>
            MapGet(devices, Unwrap(reg[t].device).esp_id) = reg[t].device
\* two registrations for one id with different records have completed
C9_Witness ==
    \E t, u \in RegTasks :
        /\ reg[t].pc = "done" /\ reg[u].pc = "done"
        /\ reg[t].at < reg[u].at
        /\ Unwrap(reg[t].device).esp_id = Unwrap(reg[u].device).esp_id
        /\ reg[t].device /= reg[u].device
        /\ devices[Unwrap(reg[u].device).esp_id] = Unwrap(reg[u].device)

\* the insert and the listing, as C10 states them
C10_Idempotent ==
    \A t \in RegTasks, d \in RegisterBodies :
        (register_device(t, d) /\ d \in {devices[k] : k \in DOMAIN devices}) =>
            devices' = devices
C10_ListOne ==
    \A u \in ListTasks :
        get_devices(u) =>
            LET v == Unwrap(listing'[u]) IN
              \A d \in {devices[k] : k \in DOMAIN devices} :
                  Cardinality({i \in DOMAIN v : v[i].esp_id = d.esp_id}) = 1
C10_OnePerId ==
    \A u \in ListTasks :
        listing[u] /= None =>
            LET v == Unwrap(listing[u]) IN
              \A i, j \in DOMAIN v : i /= j => v[i].esp_id /= v[j].esp_id
\* C10: registering a record the catalog already holds leaves the catalog
\* as it is, and a device listing holds exactly one record for each id of
\* the catalog, so never two records with the same id.
C10_ReRegistration == []C10_OnePerId /\ [][C10_Idempotent /\ C10_ListOne]_vars
\* the same record was registered twice and a listing of two devices holds
\* it once
C10_Witness ==
    \E t, u \in RegTasks, l \in ListTasks :
        /\ t /= u
        /\ reg[t].pc = "done" /\ reg[u].pc = "done"
        /\ reg[t].device = reg[u].device
        /\ listing[l] /= None
        /\ Len(Unwrap(listing[l])) = 2
        /\ \E i \in 1..2 : Unwrap(listing[l])[i] = Unwrap(reg[t].device)


\* the critical section the holder of a guard is in
Section(me) ==
    \/ \E t \in RegTasks :
          me = RegTask(t)
          /\ ((\E device \in RegisterBodies : register_device(t, device)) \/ save_serialize(t))
    \/ \E t \in WakeTasks :
          me = WakeTask(t)
          /\ ((\E req \in WakeRequest : wake_device_get(t, req)) \/ wake_device_lookup(t))
    \/ \E t \in ListTasks : me = ListTask(t) /\ get_devices(t)
    \/ \E c \in Conns : me = ConnTask(c) /\ (started(c) \/ stopped(c))

\* no handler and no actor holds both guards
C11_NeverBoth == \A me \in Tasks : Cardinality(HeldBy(me)) <= 1
\* wake_device has dropped the devices guard when it goes for the connections
C11_WakeReleasesFirst ==
    \A t \in WakeTasks : wake[t].pc = "authorized" => ~Holds("devices", WakeTask(t))
\* the holder of a guard waits for nothing: its critical section can run to
\* its end, after which the guard is free for the tasks that wait for it
C11_HolderRuns == \A k \in LockNames : lock[k] /= None => ENABLED Section(Unwrap(lock[k]))
\* C11: the devices lock and the active_connections lock are never held at
\* the same time by one task, wake_device releases the first before it takes
\* the second, and no interleaving of register, list, wake, connection open
\* and connection close reaches a deadlock (whoever holds a lock can finish
\* its critical section and release it).
C11_LocksNeverNested == C11_NeverBoth /\ C11_WakeReleasesFirst /\ C11_HolderRuns
\* a wake holds the connections guard while another task holds the devices guard
C11_Witness ==
    \E t \in WakeTasks :
        /\ Holds("active_connections", WakeTask(t))
        /\ lock["devices"] /= None
        /\ \E c \in Conns : conn[c].state = "created"

\* C12: a lock() that fails on a poisoned lock during a register, list or
\* wake request is answered to that caller with an internal error (status
\* 500), and the handling task does not panic.
C12_LockFailureReported ==
    \A me \in DOMAIN aborted :
        (aborted[me].at = "lock" /\ me[1] \in {"reg", "list", "wake"}) =>
            ~aborted[me].panicked /\ aborted[me].resp.status = 500

\* the ids whose record a finished registration has written to the file
Persisted ==
    {Unwrap(reg[t].device).esp_id : t \in {u \in RegTasks : reg[u].pc = "done" /\ reg[u].resp = Registered}}
\* C13: after a restart the registry is empty and every record that was
\* persisted before the restart is in the catalog again.
C13_RestartRestoresPersisted ==
    [][restart => (active_connections' = EmptyMap /\ Persisted \subseteq DOMAIN devices')]_vars
\* the parts that hold: the registry is empty, the catalog is what the file holds
C13_RestartLoadsFile ==
    [][restart => (active_connections' = EmptyMap /\ devices' = DeviceStore_new(file))]_vars

\* the registry holds the address of c
Registered_addr(c) == \E id \in DOMAIN active_connections : active_connections[id] = c
\* the Close frame is acknowledged with a Close frame of the same reason, in
\* the step that receives it
C14_Acknowledged ==
    \A c \in Conns : \A msg \in Messages :
        (msg.type = "close" /\ stream_handle(c, msg)) =>
            ctl'[c] = Append(ctl[c], Close(msg.payload)) /\ stream_closed(c)'
\* after its Close frame the actor stops and the registry loses its address
C14_Deregistered ==
    \A c \in Conns :
        stream_closed(c) ~> (conn[c].state = "stopped" /\ ~Registered_addr(c))
C15_Claimed ==
    \A c \in Conns : \A query \in Queries :
        ws_index(c, query) =>
            /\ conn'[c].state = "created"
            /\ conn'[c].esp_id = (IF query = None THEN "" ELSE Unwrap(query))
\* started registers the actor under that id, whatever the catalog holds
C15_Stored ==
    \A c \in Conns :
        started(c) =>
            /\ conn'[c].state = "started"
            /\ MapGet(active_connections', conn[c].esp_id) = Some(c)
\* C15: a connection is registered under the id it claims at connect time
\* with no check against the catalog or a secret; a missing id is the empty
\* string, so the registry may hold ids that the catalog does not, and
\* id-less connections share the key "".
C15_RegisteredAsClaimed == [][C15_Claimed /\ C15_Stored]_vars
\* two id-less connections have started, the registry holds the second under
\* "", which is no key of the catalog
C15_Witness ==
    /\ \A c \in Conns : conn[c].state = "started" /\ conn[c].esp_id = ""
    /\ DOMAIN active_connections = {""}
    /\ "" \notin DOMAIN devices
    /\ devices /= EmptyMap

\* the pongs written are the pings received, in order and with their payload
RECURSIVE Payloads(_, _)
Payloads(fs, type) ==
    IF fs = <<>> THEN <<>>
    ELSE (IF Head(fs).type = type THEN <<Head(fs).payload>> ELSE <<>>) \o Payloads(Tail(fs), type)
C16_OnePongPerPing == \A c \in Conns : Payloads(ctl[c], "pong") = Payloads(rx[c], "ping")
\* a Ping is answered in the step that receives it, with one Pong of the same
\* payload; a frame that is neither Ping nor Close writes nothing; both leave
\* the actor started, its stream open, and the registry and the catalog as
\* they are
C16_Frame ==
    \A c \in Conns : \A msg \in Messages :
        (msg.type /= "close" /\ stream_handle(c, msg)) =>
            /\ ctl'[c] = (IF msg.type = "ping" THEN Append(ctl[c], Pong(msg.payload)) ELSE ctl[c])
            /\ conn'[c].state = "started" /\ ~stream_closed(c)'
            /\ conn' = conn
            /\ active_connections' = active_connections
            /\ devices' = devices /\ file' = file
\* C16: while a connection is established, every inbound Ping is answered
\* with one Pong carrying the same payload, and Ping frames and all other
\* inbound frames except Close leave the connection Established and leave
\* the registry and the catalog unchanged.
C16_PingPong == []C16_OnePongPerPing /\ [][C16_Frame]_vars
\* a registered connection has answered two different pings and is still
\* started and registered
C16_Witness ==
    \E c \in Conns :
        /\ rx[c] = <<Ping("q"), Ping("p")>>
        /\ ctl[c] = <<Pong("q"), Pong("p")>>
        /\ conn[c].state = "started"
        /\ MapGet(active_connections, conn[c].esp_id) = Some(c)

\* a text frame is written only by the handler of WsMessage: one frame, the
\* oldest accepted message as it was pushed; a message is accepted only from
\* a wake_device that answers 200, behind the messages accepted before it
C17_Step ==
    \A c \in Conns :
        /\ frames'[c] /= frames[c] =>
              /\ conn[c].state = "started" /\ mailbox[c] /= <<>>
              /\ frames'[c] = Append(frames[c], Head(mailbox[c]))
              /\ mailbox'[c] = Tail(mailbox[c])
        /\ (mailbox'[c] /= mailbox[c] /\ frames'[c] = frames[c]) =>
              \E t \in WakeTasks :
                  /\ wake[t].pc = "sending" /\ wake[t].addr = Some(c)
                  /\ wake'[t].resp = WakeSent
                  /\ mailbox'[c] =
                        Append(mailbox[c], [type |-> "wake",
                                            mac_address |-> Unwrap(wake[t].device).mac_address])
\* no accepted message is left unwritten when the connection has stopped
C17_NoneLeft == \A c \in Conns : conn[c].state = "stopped" => mailbox[c] = <<>>
\* a stopped connection writes nothing more: what it had accepted and not
\* handled stays unwritten
C17_Dropped ==
    \A c \in Conns :
        conn[c].state = "stopped" => frames'[c] = frames[c] /\ mailbox'[c] = mailbox[c]
C18_NeverDeleted == [][DOMAIN devices \subseteq DOMAIN devices']_vars
\* a registration added a second id to the loaded catalog, and a wake and a
\* connection came and went after it
C18_Witness ==
    /\ Cardinality(DOMAIN devices) = 2
    /\ \E t \in RegTasks : reg[t].pc = "done" /\ reg[t].at = 2
    /\ \E t \in WakeTasks : wake[t].pc = "done"
    /\ \E c \in Conns : conn[c].state = "stopped"

\* the registered version of the id that has the password of the request
Verified(req) ==
    CHOOSE r \in RegisterBodies : r.esp_id = req.esp_id /\ r.password = req.password
\* C19: under concurrent re-registration of an id, the mac_address of every
\* sent wake payload is that of the record version whose password matched
\* the request: both come from the one record read in the critical section
\* of lines 120-123.
C19_MacOfVerifiedRecord ==
    [][\A t \in WakeTasks :
        (wake_device_send(t) /\ wake'[t].resp = WakeSent) =>
            LET a == Unwrap(wake[t].addr) IN
              mailbox'[a][Len(mailbox'[a])].mac_address
                  = Verified(Unwrap(wake[t].req)).mac_address]_vars
\* a wake for A sent the mac of the version it verified although the catalog
\* holds the next version of A by then
C19_Witness ==
    /\ \E t \in WakeTasks : wake[t].resp = WakeSent
    /\ \E c \in Conns : frames[c] = <<[type |-> "wake", mac_address |-> "AA:BB:CC:DD:EE:FF"]>>
    /\ "A" \in DOMAIN devices /\ devices["A"].mac_address = "11:22:33:44:55:66"
    /\ \E t \in RegTasks : reg[t].pc = "done" /\ reg[t].resp = Registered

\* the steps of a wake request, of the catalog requests and of a connection
WakeStep ==
    \E t \in WakeTasks :
        \/ wake_device_lock_devices(t) \/ (\E req \in WakeRequest : wake_device_get(t, req))
        \/ wake_device_lock_connections(t) \/ wake_device_lookup(t) \/ wake_device_send(t)
ConnStep ==
    \E c \in Conns :
        \/ (\E query \in Queries : ws_index(c, query)) \/ started_lock(c) \/ started(c)
        \/ stopped_lock(c) \/ stopped(c) \/ handle(c)
        \/ (\E msg \in Messages : stream_handle(c, msg))
\* C20: a wake request, whatever its outcome, leaves the catalog and the
\* registry unchanged; a registration and a listing leave the registry
\* unchanged; a connection that opens, closes or receives frames leaves the
\* catalog and the file unchanged.
C20_OwnOperationsOnly ==
    [][/\ WakeStep => (devices' = devices /\ active_connections' = active_connections)
       /\ NextCatalog => active_connections' = active_connections
       /\ ConnStep => (devices' = devices /\ file' = file)]_vars
\* a wake was sent to a registered connection and a registration was saved
C20_Witness ==
    /\ \E t \in WakeTasks : wake[t].resp = WakeSent
    /\ \E t \in RegTasks : reg[t].resp = Registered
    /\ \E c \in Conns : MapGet(active_connections, conn[c].esp_id) = Some(c) /\ rx[c] = <<>>
    /\ file = Written(to_string_pretty(devices))
====
